---- MODULE Spec2Model ----
(***************************************************************************)
(* A model of the ClawBeat "forge" news aggregator (src/forge.py): the     *)
(* clustering engine cluster_articles_temporal (embedding, date buckets,   *)
(* greedy anchor-only clustering, merge with the persisted list, sort and  *)
(* rolling window) and the main sequence that loads, scans, clusters and   *)
(* saves ./public/data.json.                                               *)
(*                                                                         *)
(* Data representation                                                     *)
(*   article / item : a record with the keys of the Python dict            *)
(*       url, title, source, date, summary, density, vec, moreCoverage     *)
(*   date    : the "%m-%d-%Y" string, kept as its fields <<mm, dd, yyyy>>  *)
(*             in the order they stand in the string                       *)
(*   vec     : a sequence of integers; NoVec (the empty sequence) is None  *)
(*   density : an integer; NoDensity stands for an absent 'density' key    *)
(*   moreCoverage : a sequence of [source, url]; empty when the key is     *)
(*             absent (only anchors carry the key)                         *)
(***************************************************************************)
EXTENDS Integers, Sequences, FiniteSets, TLC

VARIABLES
    pc,             \* position in the sequence a specification runs
    store,          \* the file OUTPUT_PATH: [kind, items]
    db_items,       \* db['items'] of the running process
    new_discovered, \* the list new_discovered / new_articles (its dicts are mutated in place)
    clusters,       \* daily_clusters of every bucket of the last clustering run, as
                    \* sequences of positions in new_articles, in creation order
    call_new,       \* argument new_articles of the last call, as it was passed
    call_existing,  \* argument existing_items of the last call
    once_items,     \* result of the first of two consecutive calls
    call_failed,    \* the embedding batches that failed in the last call
    thr,            \* <<t1, t2>>, two thresholds <<num, den>>, for the threshold comparison
    thr_clusters,   \* <<clusters at t1, clusters at t2>> of the same articles
    today,          \* the clock: position of the current day in Days
    runs,           \* number of runs of the main sequence started
    store0,         \* the file as it was when the current run started
    writes,         \* number of times the current run opened the file for writing
    whitelist,      \* the file WHITELIST_PATH and the feeds behind its sites
    gn_feed,        \* the Google News search feed
    in_texts,       \* argument texts of get_embeddings_batch
    all_embeddings, \* all_embeddings of get_embeddings_batch
    calls,          \* what get_embeddings_batch did so far: embed_content calls and sleeps
    row,            \* argument r of _score_github_project
    scored,         \* what _score_github_project returned: <<score, tier>>
    supabase,       \* _supabase of events_forge is a client (TRUE) or None (FALSE)
    events_table,   \* the urls of the rows of the Supabase table "events"
    existing_urls,  \* existing_urls of events_forge
    raw_events,     \* raw_events of events_forge
    new_events,     \* new_events of events_forge
    save_calls      \* the arguments of the calls of save_events, in order

vars == <<pc, store, db_items, new_discovered, clusters, call_new, call_existing,
          once_items, call_failed, thr, thr_clusters, today, runs, store0, writes,
          whitelist, gn_feed, in_texts, all_embeddings, calls,
          row, scored, supabase, events_table, existing_urls, raw_events, new_events,
          save_calls>>

----------------------------------------------------------------------------
(* Bounds of the model *)

\* articles in one batch of the clustering specification
MaxBatch == 3
\* articles in one batch of the merge specification
MaxNew == 2
\* articles in the single bucket of the threshold specification
MaxThrBatch == 4
\* the rolling window, final_news[:1000] in the source, scaled down
MaxSize == 2
\* runs of the main sequence
MaxRuns == 2

----------------------------------------------------------------------------
(* Generic helpers *)

Range(s) == {s[i] : i \in 1..Len(s)}

Min(S) == CHOOSE x \in S : \A y \in S : x <= y

Front(s) == SubSeq(s, 1, Len(s) - 1)

\* s[:n]
Take(s, n) == SubSeq(s, 1, IF Len(s) < n THEN Len(s) ELSE n)

Count(s, x) == Cardinality({i \in 1..Len(s) : s[i] = x})

RECURSIVE Flatten(_)
Flatten(ss) == IF ss = <<>> THEN <<>> ELSE Head(ss) \o Flatten(Tail(ss))

\* all sequences over S of length at most n
SeqsUpTo(S, n) == UNION {[1..k -> S] : k \in 0..n}

----------------------------------------------------------------------------
(* Values *)

NoVec == <<>>

NoDensity == -1

\* x.get('density', 0)
Density(a) == IF a.density = NoDensity THEN 0 ELSE a.density

\* The days the clock passes through, as strftime("%m-%d-%Y") prints them.
Days == << <<12, 31, 2025>>, <<1, 1, 2026>> >>

Strftime(clock) == Days[clock]

\* datetime.strptime(x['date'], "%m-%d-%Y") as a sort key: later date, larger key
Strptime(date) == date[3] * 372 + date[1] * 31 + date[2]

\* The vectors the embedding service returns, by title.  Cosines:
\*   tA-tB 5/sqrt(61) ~ 0.64   tB-tC, tB-tD 6/sqrt(61) ~ 0.77
\*   tA-tC, tA-tD 30/61 ~ 0.49  tC-tD 11/61 ~ 0.18
\* and, for a model of the service with five components,
\*   tE-tH 3/4   tE-tF 4/5   tE-tG 1/sqrt(2) ~ 0.71
\*   tF-tG 7/(5 sqrt(2)) ~ 0.99   tG-tH 5/(4 sqrt(2)) ~ 0.88   tF-tH 9/10
VecOfTitle(title) ==
    CASE title = "tA" -> <<0, 6, 5>>
      [] title = "tB" -> <<0, 0, 1>>
      [] title = "tC" -> <<5, 0, 6>>
      [] title = "tD" -> <<-5, 0, 6>>
      [] title = "tE" -> <<1, 0, 0, 0, 0>>
      [] title = "tF" -> <<4, 3, 0, 0, 0>>
      [] title = "tG" -> <<1, 1, 0, 0, 0>>
      [] title = "tH" -> <<3, 2, 1, 1, 1>>
      [] OTHER -> <<0, 0, 0>>

SummaryCut == 100

\* f"{a['title']}: {a['summary'][:100]}"
Text(a) == <<a.title, Take(a.summary, SummaryCut)>>

\* client.models.embed_content for one text (a fixed function of the text)
EmbedContent(text) == VecOfTitle(text[1])

----------------------------------------------------------------------------
(* cosine_similarity and the comparison sim > threshold *)

RECURSIVE Dot(_, _)
Dot(v1, v2) == IF v1 = <<>> THEN 0 ELSE Head(v1) * Head(v2) + Dot(Tail(v1), Tail(v2))

\* np.linalg.norm(v) squared
NormSq(v) == Dot(v, v)

\* the comparison turned round: sim < num/den
SimBelow(v1, v2, num, den) ==
    LET d == Dot(v1, v2)
    IN  \/ d <= 0
        \/ d * d * den * den < num * num * NormSq(v1) * NormSq(v2)

\* the comparison made weak: sim >= num/den
SimAtLeast(v1, v2, num, den) ==
    LET d == Dot(v1, v2)
    IN  /\ d > 0
        /\ d * d * den * den >= num * num * NormSq(v1) * NormSq(v2)

\* cosine_similarity(v1, v2) > num/den, for 0 <= num/den, in exact arithmetic:
\* dot / (|v1| |v2|) > num/den  iff  dot > 0 and dot^2 den^2 > num^2 |v1|^2 |v2|^2.
\* A zero vector gives 0/0 = nan in numpy, and nan > t is False.
SimExceeds(v1, v2, num, den) ==
    LET d == Dot(v1, v2)
    IN  /\ d > 0
        /\ d * d * den * den > num * num * NormSq(v1) * NormSq(v2)

\* the literal 0.75 of "if sim > 0.75"
SimNum == 3
SimDen == 4

----------------------------------------------------------------------------
(* get_embeddings_batch *)

BatchSize == 5

\* the batch (counted from 1) the text at position i is sent in
BatchOf(i) == ((i - 1) \div BatchSize) + 1

\* failed: the batches for which embed_content raises
GetEmbeddingsBatch(texts, failed) ==
    [i \in 1..Len(texts) |->
        IF BatchOf(i) \in failed THEN NoVec ELSE EmbedContent(texts[i])]

----------------------------------------------------------------------------
(* cluster_articles_temporal, step 1: embeddings for the new items *)

\* the members of a set of positions, ascending
SortedSeq(S) ==
    [k \in 1..Cardinality(S) |->
        CHOOSE x \in S : Cardinality({y \in S : y < x}) = k - 1]

PosIn(s, x) == CHOOSE k \in 1..Len(s) : s[k] = x

\* positions of [a for a in new_articles if a.get('vec') is None]
NeedsEmbedding(arts) == SortedSeq({i \in 1..Len(arts) : arts[i].vec = NoVec})

\* new_articles after "for i, art in enumerate(needs_embedding): art['vec'] = new_vectors[i]"
Embedded(arts, failed) ==
    LET needs   == NeedsEmbedding(arts)
        texts   == [k \in 1..Len(needs) |-> Text(arts[needs[k]])]
        vectors == GetEmbeddingsBatch(texts, failed)
    IN  [i \in 1..Len(arts) |->
            IF arts[i].vec = NoVec
            THEN [arts[i] EXCEPT !.vec = vectors[PosIn(needs, i)]]
            ELSE arts[i]]

----------------------------------------------------------------------------
(* step 2: date buckets, density sort, greedy clustering *)

\* keys of date_buckets, in insertion order
RECURSIVE DateKeys(_)
DateKeys(arts) ==
    IF arts = <<>> THEN <<>>
    ELSE LET keys == DateKeys(Front(arts))
             d    == arts[Len(arts)].date
         IN  IF d \in Range(keys) THEN keys ELSE Append(keys, d)

\* no bucketing: every article in every bucket
BucketAnyDate(arts, d) == SortedSeq(1..Len(arts))

\* date_buckets[d], as positions in new_articles
Bucket(arts, d) == SortedSeq({i \in 1..Len(arts) : arts[i].date = d})

\* list.sort(key=..., reverse=True) on a list of positions whose keys are key[i]:
\* descending, and elements with equal keys keep their order
SortDesc(idxs, key) ==
    LET n == Len(idxs)
        rank(p) == Cardinality({q \in 1..n : key[idxs[q]] > key[idxs[p]]})
                 + Cardinality({q \in 1..(p - 1) : key[idxs[q]] = key[idxs[p]]}) + 1
    IN  [r \in 1..n |-> idxs[CHOOSE p \in 1..n : rank(p) = r]]

\* the sort left out: discovery order
SortByDensityNone(arts, idxs) == idxs

\* day_articles.sort(key=lambda x: x.get('density', 0), reverse=True)
SortByDensity(arts, idxs) ==
    SortDesc(idxs, [i \in 1..Len(arts) |-> Density(arts[i])])

\* the loop without "if art['vec'] is None: continue": an article without vector
\* matches nothing and is matched by nothing
RECURSIVE DailyClustersKeepNone(_, _, _, _)
DailyClustersKeepNone(arts, order, num, den) ==
    IF order = <<>> THEN <<>>
    ELSE LET cs   == DailyClustersKeepNone(arts, Front(order), num, den)
             i    == order[Len(order)]
             hits == {k \in 1..Len(cs) :
                         /\ arts[i].vec # NoVec
                         /\ arts[cs[k][1]].vec # NoVec
                         /\ SimExceeds(arts[i].vec, arts[cs[k][1]].vec, num, den)}
         IN  IF hits = {} THEN Append(cs, <<i>>)
             ELSE [cs EXCEPT ![Min(hits)] = Append(@, i)]

\* the loop "for art in day_articles" at threshold num/den; a cluster is the
\* sequence of its members' positions, cluster[1] its anchor
RECURSIVE DailyClusters(_, _, _, _)
DailyClusters(arts, order, num, den) ==
    IF order = <<>> THEN <<>>
    ELSE LET cs   == DailyClusters(arts, Front(order), num, den)
             i    == order[Len(order)]
             hits == {k \in 1..Len(cs) :
                         SimExceeds(arts[i].vec, arts[cs[k][1]].vec, num, den)}
         IN  IF arts[i].vec = NoVec THEN cs
             ELSE IF hits = {} THEN Append(cs, <<i>>)
             ELSE [cs EXCEPT ![Min(hits)] = Append(@, i)]

\* daily_clusters of every bucket, buckets in insertion order
ClustersAt(arts, num, den) ==
    LET keys == DateKeys(arts)
    IN  Flatten([k \in 1..Len(keys) |->
            DailyClusters(arts, SortByDensity(arts, Bucket(arts, keys[k])), num, den)])

AllClusters(arts) == ClustersAt(arts, SimNum, SimDen)

\* the anchor listed with the other members: "for a in cluster"
MoreCoverageAll(arts, cluster) ==
    [k \in 1..Len(cluster) |->
        [source |-> arts[cluster[k]].source, url |-> arts[cluster[k]].url]]

\* anchor['moreCoverage'] = [{"source": a['source'], "url": a['url']} for a in cluster[1:]]
MoreCoverage(arts, cluster) ==
    [k \in 1..(Len(cluster) - 1) |->
        [source |-> arts[cluster[k + 1]].source, url |-> arts[cluster[k + 1]].url]]

AnchorOf(arts, cluster) ==
    [arts[cluster[1]] EXCEPT !.moreCoverage = MoreCoverage(arts, cluster)]

\* current_batch_clustered
CurrentBatchClustered(arts, cs) == [k \in 1..Len(cs) |-> AnchorOf(arts, cs[k])]

\* new_articles once the anchors carry their moreCoverage (the dicts are shared)
Mutated(arts, cs) ==
    [i \in 1..Len(arts) |->
        IF \E k \in 1..Len(cs) : cs[k][1] = i
        THEN AnchorOf(arts, cs[CHOOSE k \in 1..Len(cs) : cs[k][1] = i])
        ELSE arts[i]]

----------------------------------------------------------------------------
(* step 3: merge, sort by date, rolling window *)

ExistingUrls(items) == {items[i].url : i \in 1..Len(items)}

\* the url filter left out
SurvivingAll(anchors, items) == anchors

\* [a for a in current_batch_clustered if a['url'] not in existing_urls]
Surviving(anchors, items) ==
    SelectSeq(anchors, LAMBDA a : a.url \notin ExistingUrls(items))

\* final_news.sort(key=lambda x: datetime.strptime(x['date'], "%m-%d-%Y"), reverse=True)
SortByDate(items) ==
    LET order == SortDesc([i \in 1..Len(items) |-> i],
                          [i \in 1..Len(items) |-> Strptime(items[i].date)])
    IN  [r \in 1..Len(items) |-> items[order[r]]]

\* the other end of the list: final_news[-1000:]
WindowTail(items) ==
    SubSeq(items, IF Len(items) > MaxSize THEN Len(items) - MaxSize + 1 ELSE 1, Len(items))

\* final_news[:1000]
Window(items) == Take(items, MaxSize)

\* the new anchors also listed in the moreCoverage of the existing entries of
\* their date
MergeAbsorb(anchors, items) ==
    LET pairs(d) == LET on == SelectSeq(anchors, LAMBDA a : a.date = d)
                    IN  [k \in 1..Len(on) |-> [source |-> on[k].source, url |-> on[k].url]]
        absorbed == [i \in 1..Len(items) |->
                        [items[i] EXCEPT !.moreCoverage = @ \o pairs(items[i].date)]]
    IN  Window(SortByDate(Surviving(anchors, items) \o absorbed))

\* the new anchors appended after the existing items
MergeOldFirst(anchors, items) == Window(SortByDate(items \o Surviving(anchors, items)))

\* final_news = [surviving anchors] + existing_items, sorted, cut to the window
Merge(anchors, items) == Window(SortByDate(Surviving(anchors, items) \o items))

\* cluster_articles_temporal(new_articles, existing_items): the returned list
ClusterArticlesTemporal(arts, items, failed) ==
    IF arts = <<>> THEN items
    ELSE LET emb == Embedded(arts, failed)
         IN  Merge(CurrentBatchClustered(emb, AllClusters(emb)), items)

\* new_articles after the call
NewAfterCall(arts, failed) ==
    IF arts = <<>> THEN arts
    ELSE LET emb == Embedded(arts, failed)
         IN  Mutated(emb, AllClusters(emb))

\* daily_clusters of the call (none on the early return)
ClustersOfCall(arts, failed) ==
    IF arts = <<>> THEN <<>> ELSE AllClusters(Embedded(arts, failed))

----------------------------------------------------------------------------
(* Inputs *)

\* an article as scan_rss / scan_google_news build it ("vec": None, no moreCoverage)
MkArticle(url, title, source, date, summary, density) ==
    [url |-> url, title |-> title, source |-> source, date |-> date,
     summary |-> summary, density |-> density, vec |-> NoVec, moreCoverage |-> <<>>]

\* an entry of a data.json written earlier
MkItem(url, date) ==
    [url |-> url, title |-> "tOld", source |-> "Archive", date |-> date,
     summary |-> <<"o">>, density |-> 1, vec |-> <<1, 0, 0>>, moreCoverage |-> <<>>]

DaySet == Range(Days)

UrlPool == <<"u1", "u2", "u3", "u4", "u5", "u6", "u7", "u8", "u9", "u10", "u11", "u12">>

\* batches of the clustering specification: the i-th article has the i-th url
ClusterShapes ==
    {MkArticle("u", t, "Site", d, <<"s">>, n) :
        t \in {"tA", "tB"}, d \in DaySet, n \in {NoDensity, 0, 1}}

ClusterBatches ==
    {[i \in 1..Len(s) |-> [s[i] EXCEPT !.url = UrlPool[i]]] :
        s \in SeqsUpTo(ClusterShapes, MaxBatch)}

\* batches of the threshold specification: one bucket
ThresholdShapes ==
    {MkArticle("u", t, "Site", Days[1], <<"s">>, n) :
        t \in {"tA", "tB", "tC", "tD"}, n \in {1}}

ThresholdBatches ==
    {[i \in 1..Len(s) |-> [s[i] EXCEPT !.url = UrlPool[i]]] :
        s \in SeqsUpTo(ThresholdShapes, MaxThrBatch)}

Thresholds == {<<1, 4>>, <<1, 2>>, <<3, 4>>}

\* t1 < t2
Below(t1, t2) == t1[1] * t2[2] < t2[1] * t1[2]

\* batches and persisted lists of the merge specification: "u1" is in both
MergeArticles ==
    {MkArticle(u, t, "Site", d, <<"s">>, 1) : u \in {"u1", "u3"}, t \in {"tA", "tC"}, d \in DaySet}

MergeItems == {MkItem(u, d) : u \in {"u1", "u2"}, d \in DaySet}

\* a file written with a larger window: one entry more than final_news[:1000] keeps
OversizeLists == {[i \in 1..(MaxSize + 1) |-> MkItem(UrlPool[i], d)] : d \in DaySet}

PersistedLists == SeqsUpTo(MergeItems, MaxSize) \cup OversizeLists

\* the batches of embed_content calls a list of articles needs
BatchesOf(arts) == {BatchOf(k) : k \in 1..Len(NeedsEmbedding(arts))}

NoStore == [kind |-> "absent", items |-> <<>>]

\* the variables of the main sequence, at rest
MainIdle ==
    /\ store = NoStore
    /\ store0 = NoStore
    /\ today = 1
    /\ runs = 0
    /\ writes = 0

mainVars == <<store, store0, today, runs, writes>>

NoWhitelist == [kind |-> "absent", sites |-> <<>>]

NoFeed == [parsed |-> TRUE, entries |-> <<>>]

\* the variables of backfill_rubric_scores.py, at rest
RubricIdle ==
    /\ row = <<>>
    /\ scored = <<>>

rubricVars == <<row, scored>>

\* the variables of events_forge.py, at rest
EventsIdle ==
    /\ supabase = FALSE
    /\ events_table = {}
    /\ existing_urls = {}
    /\ raw_events = <<>>
    /\ new_events = <<>>
    /\ save_calls = <<>>

eventsVars == <<supabase, events_table, existing_urls, raw_events, new_events, save_calls>>

\* the variables of the scans and of get_embeddings_batch taken alone, at rest
UnitIdle ==
    /\ whitelist = NoWhitelist
    /\ gn_feed = NoFeed
    /\ in_texts = <<>>
    /\ all_embeddings = <<>>
    /\ calls = <<>>
    /\ RubricIdle
    /\ EventsIdle

unitVars == <<whitelist, gn_feed, in_texts, all_embeddings, calls, rubricVars, eventsVars>>

----------------------------------------------------------------------------
(* One call db['items'] = cluster_articles_temporal(new_discovered, db['items']) *)

CallCluster(failed) ==
    /\ call_new' = new_discovered
    /\ call_existing' = db_items
    /\ call_failed' = failed
    /\ clusters' = ClustersOfCall(new_discovered, failed)
    /\ db_items' = ClusterArticlesTemporal(new_discovered, db_items, failed)
    /\ new_discovered' = NewAfterCall(new_discovered, failed)

----------------------------------------------------------------------------
(* The clustering specification: one call on a batch, nothing persisted *)

InitCluster ==
    /\ pc = "input"
    /\ new_discovered \in ClusterBatches
    /\ db_items = <<>>
    /\ clusters = <<>>
    /\ call_new = <<>>
    /\ call_existing = <<>>
    /\ call_failed = {}
    /\ once_items = <<>>
    /\ thr = <<<<SimNum, SimDen>>, <<SimNum, SimDen>>>>
    /\ thr_clusters = <<<<>>, <<>>>>
    /\ MainIdle
    /\ UnitIdle

ClusterBatch ==
    /\ pc = "input"
    /\ pc' = "clustered"
    /\ \E failed \in SUBSET BatchesOf(new_discovered) : CallCluster(failed)
    /\ UNCHANGED <<once_items, thr, thr_clusters, mainVars, unitVars>>

SpecCluster == InitCluster /\ [][ClusterBatch]_vars

----------------------------------------------------------------------------
(* The clustering specification on batches that try the greedy assignment and
   the embedding batches: one call, nothing persisted *)

\* articles in a short batch
MaxGreedy == 4
\* articles in a batch that needs two calls of the embedding service
MaxLong == 7

GreedyShapes ==
    {MkArticle("u", t, "Site", Days[1], <<"s">>, 1) : t \in {"tE", "tF", "tG", "tH"}}
    \cup {MkArticle("u", "tG", "Site", Days[1], <<"s">>, 2)}

LongShapes ==
    {MkArticle("u", t, "Site", Days[1], <<"s">>, 1) : t \in {"tE", "tF"}}

GreedyBatches ==
    {[i \in 1..Len(s) |-> [s[i] EXCEPT !.url = UrlPool[i]]] :
        s \in SeqsUpTo(GreedyShapes, MaxGreedy)
              \cup UNION {[1..n -> LongShapes] : n \in (BatchSize + 1)..MaxLong}}

InitGreedy ==
    /\ pc = "input"
    /\ new_discovered \in GreedyBatches
    /\ db_items = <<>>
    /\ clusters = <<>>
    /\ call_new = <<>>
    /\ call_existing = <<>>
    /\ call_failed = {}
    /\ once_items = <<>>
    /\ thr = <<<<SimNum, SimDen>>, <<SimNum, SimDen>>>>
    /\ thr_clusters = <<<<>>, <<>>>>
    /\ MainIdle
    /\ UnitIdle

SpecGreedy == InitGreedy /\ [][ClusterBatch]_vars

----------------------------------------------------------------------------
(* The threshold specification: the same bucket clustered at two thresholds *)

InitThreshold ==
    /\ pc = "thr_input"
    /\ new_discovered \in ThresholdBatches
    /\ thr \in {p \in Thresholds \X Thresholds : Below(p[1], p[2])}
    /\ thr_clusters = <<<<>>, <<>>>>
    /\ db_items = <<>>
    /\ clusters = <<>>
    /\ call_new = <<>>
    /\ call_existing = <<>>
    /\ call_failed = {}
    /\ once_items = <<>>
    /\ MainIdle
    /\ UnitIdle

CompareThresholds ==
    /\ pc = "thr_input"
    /\ pc' = "thr_done"
    /\ LET emb == Embedded(new_discovered, {})
       IN  /\ new_discovered' = emb
           /\ thr_clusters' = <<ClustersAt(emb, thr[1][1], thr[1][2]),
                                ClustersAt(emb, thr[2][1], thr[2][2])>>
    /\ UNCHANGED <<db_items, clusters, call_new, call_existing, call_failed,
                   once_items, thr, mainVars, unitVars>>

SpecThreshold == InitThreshold /\ [][CompareThresholds]_vars

----------------------------------------------------------------------------
(* The merge specification: a batch merged into a persisted list, twice *)

InitMerge ==
    /\ pc = "merge_input"
    /\ new_discovered \in SeqsUpTo(MergeArticles, MaxNew)
    /\ db_items \in PersistedLists
    /\ clusters = <<>>
    /\ call_new = <<>>
    /\ call_existing = <<>>
    /\ call_failed = {}
    /\ once_items = <<>>
    /\ thr = <<<<SimNum, SimDen>>, <<SimNum, SimDen>>>>
    /\ thr_clusters = <<<<>>, <<>>>>
    /\ MainIdle
    /\ UnitIdle

MergeOnce ==
    /\ pc = "merge_input"
    /\ pc' = "once"
    /\ \E failed \in SUBSET BatchesOf(new_discovered) : CallCluster(failed)
    /\ once_items' = db_items'
    /\ UNCHANGED <<thr, thr_clusters, mainVars, unitVars>>

\* the same batch (the same dicts) against the result, the service behaving the same
MergeAgain ==
    /\ pc = "once"
    /\ pc' = "twice"
    /\ CallCluster(call_failed)
    /\ UNCHANGED <<once_items, thr, thr_clusters, mainVars, unitVars>>

NextMerge == MergeOnce \/ MergeAgain

SpecMerge == InitMerge /\ [][NextMerge]_vars

----------------------------------------------------------------------------
(* The main sequence of forge.py, run after run *)

\* urls on one of PRIORITY_SITES / DELIST_SITES, source names in BANNED_SOURCES
PriorityUrls == {"u3"}
DelistUrls == {}
BannedSources == {}

GetSourceType(url, source) ==
    IF url \in DelistUrls \/ source \in BannedSources THEN "delist"
    ELSE IF url \in PriorityUrls THEN "priority"
    ELSE "standard"

\* what scan_rss can append for one feed entry that passes the gate (density >= 3)
RssPool(clock) ==
    {MkArticle(u, "tA", "Site", Strftime(clock), <<"s">>, 3) : u \in {"u1", "u3"}}

\* what scan_google_news can append for one entry that passes the gate (density >= 2)
GnPool(clock) ==
    {MkArticle(u, "tC", "Web Search", Strftime(clock), <<"E">>, 2) : u \in {"u1"}}

\* articles one run takes from the feeds, and from the search
MaxRss == 1
MaxGn == 1

MAX_BATCH_SIZE == 50

\* get_ai_summary: the brief, or "Summary pending." when the call fails
AiSummary(ok) == IF ok THEN <<"b">> ELSE <<"p">>

\* the loop of step 2; llm[i] tells whether the call for article i succeeds
AfterSummaries(arts, llm) ==
    LET prio(i) == GetSourceType(arts[i].url, arts[i].source) = "priority"
        before(i) == Cardinality({j \in 1..(i - 1) : prio(j)})
    IN  [i \in 1..Len(arts) |->
            IF prio(i) /\ before(i) < MAX_BATCH_SIZE
            THEN [arts[i] EXCEPT !.summary = AiSummary(llm[i])]
            ELSE arts[i]]

Truncated == [kind |-> "partial", items |-> <<>>]

Init ==
    /\ pc = "idle"
    /\ store = NoStore
    /\ store0 = NoStore
    /\ today = 1
    /\ runs = 0
    /\ writes = 0
    /\ db_items = <<>>
    /\ new_discovered = <<>>
    /\ clusters = <<>>
    /\ call_new = <<>>
    /\ call_existing = <<>>
    /\ call_failed = {}
    /\ once_items = <<>>
    /\ thr = <<<<SimNum, SimDen>>, <<SimNum, SimDen>>>>
    /\ thr_clusters = <<<<>>, <<>>>>
    /\ UnitIdle

pureVars == <<once_items, thr, thr_clusters>>

callVars == <<clusters, call_new, call_existing, call_failed>>

\* a new process: nothing is kept but the file
StartRun ==
    /\ pc \in {"idle", "done", "crashed"}
    /\ runs < MaxRuns
    /\ pc' = "load"
    /\ runs' = runs + 1
    /\ store0' = store
    /\ writes' = 0
    /\ db_items' = <<>>
    /\ new_discovered' = <<>>
    /\ clusters' = <<>>
    /\ call_new' = <<>>
    /\ call_existing' = <<>>
    /\ call_failed' = {}
    /\ UNCHANGED <<store, today, pureVars, unitVars>>

\* the clock passes midnight; the date is read when an article is appended
Tick ==
    /\ pc \in {"scan_rss", "scan_gn"}
    /\ today < Len(Days)
    /\ today' = today + 1
    /\ UNCHANGED <<pc, store, db_items, new_discovered, callVars, runs, store0,
                   writes, pureVars, unitVars>>

\* a load that fails giving a list that is not empty
LoadItemsDefault(file) ==
    IF file.kind = "ok" THEN file.items ELSE <<MkItem("u2", Days[1])>>

\* db['items'] after the load: the file's items, or none when the file is absent
\* or when reading or parsing it raises
LoadItems(file) == IF file.kind = "ok" THEN file.items ELSE <<>>

\* "Load Existing Data"
Load ==
    /\ pc = "load"
    /\ pc' = "scan_rss"
    /\ db_items' = LoadItems(store)
    /\ UNCHANGED <<store, new_discovered, callVars, today, runs, store0, writes, pureVars, unitVars>>

\* scan_rss appends one more article
RssEntry ==
    /\ pc = "scan_rss"
    /\ Len(new_discovered) < MaxRss
    /\ \E a \in RssPool(today) : new_discovered' = Append(new_discovered, a)
    /\ UNCHANGED <<pc, store, db_items, callVars, today, runs, store0, writes, pureVars, unitVars>>

\* scan_rss returns, or json.load of the whitelist raises out of it
RssDone ==
    /\ pc = "scan_rss"
    /\ \/ pc' = "scan_gn"
       \/ new_discovered = <<>> /\ pc' = "crashed"
    /\ UNCHANGED <<store, db_items, new_discovered, callVars, today, runs, store0,
                   writes, pureVars, unitVars>>

\* scan_google_news appends one more article
GnEntry ==
    /\ pc = "scan_gn"
    /\ Cardinality({i \in 1..Len(new_discovered) :
                        new_discovered[i].source = "Web Search"}) < MaxGn
    /\ \E a \in GnPool(today) : new_discovered' = Append(new_discovered, a)
    /\ UNCHANGED <<pc, store, db_items, callVars, today, runs, store0, writes, pureVars, unitVars>>

GnDone ==
    /\ pc = "scan_gn"
    /\ pc' = "summaries"
    /\ UNCHANGED <<store, db_items, new_discovered, callVars, today, runs, store0,
                   writes, pureVars, unitVars>>

\* step 2: AI summaries for priority sources
Summaries ==
    /\ pc = "summaries"
    /\ pc' = "cluster"
    /\ \E llm \in [1..Len(new_discovered) -> BOOLEAN] :
           new_discovered' = AfterSummaries(new_discovered, llm)
    /\ UNCHANGED <<store, db_items, callVars, today, runs, store0, writes, pureVars, unitVars>>

\* step 3: db['items'] = cluster_articles_temporal(new_discovered, db.get('items', []))
Cluster ==
    /\ pc = "cluster"
    /\ pc' = "backfill"
    /\ \E failed \in SUBSET BatchesOf(new_discovered) : CallCluster(failed)
    /\ UNCHANGED <<store, today, runs, store0, writes, pureVars, unitVars>>

\* fetch_arxiv_research, fetch_youtube_videos and fetch_github_projects are called
\* by the main sequence and defined nowhere in forge.py: each call returns a list
\* or raises
BackfillOutcomes == {"returned", "raised"}

\* step 4: research, videos and GitHub backfills; nothing catches what they raise
Backfills ==
    /\ pc = "backfill"
    /\ \E outcome \in BackfillOutcomes :
           pc' = IF outcome = "returned" THEN "save" ELSE "crashed"
    /\ UNCHANGED <<store, db_items, new_discovered, callVars, today, runs, store0,
                   writes, pureVars, unitVars>>

\* open(OUTPUT_PATH, 'w'): the file is emptied, or the open raises
OpenForWrite ==
    /\ pc = "save"
    /\ \/ /\ pc' = "dump"
          /\ store' = Truncated
          /\ writes' = writes + 1
       \/ /\ pc' = "crashed"
          /\ UNCHANGED <<store, writes>>
    /\ UNCHANGED <<db_items, new_discovered, callVars, today, runs, store0, pureVars, unitVars>>

\* json.dump(db, f, ...): the whole of db reaches the file, or the write raises
\* part of the way
Dump ==
    /\ pc = "dump"
    /\ \/ /\ pc' = "done"
          /\ store' = [kind |-> "ok", items |-> db_items]
       \/ /\ pc' = "crashed"
          /\ UNCHANGED store
    /\ UNCHANGED <<db_items, new_discovered, callVars, today, runs, store0, writes,
                   pureVars, unitVars>>

Next ==
    \/ StartRun
    \/ Tick
    \/ Load
    \/ RssEntry
    \/ RssDone
    \/ GnEntry
    \/ GnDone
    \/ Summaries
    \/ Cluster
    \/ Backfills
    \/ OpenForWrite
    \/ Dump

Spec == Init /\ [][Next]_vars

----------------------------------------------------------------------------
(* scan_rss and scan_google_news on given feeds *)

\* a key the feed entry does not have
Absent == "absent"

\* entries of one feed
MaxEntries == 2

FeedCutRss == 20
FeedCutGn == 30
SummaryMax == 200
DensityGateRss == 3
DensityGateGn == 2

\* titles that hold one of KEYWORDS
KeywordTitles == {"tK"}

\* is_likely_match, from the entry's own title
IsLikelyMatch(entry) == entry.title \in KeywordTitles

\* entry.get('title', '')
GetTitle(entry) == IF entry.title = Absent THEN "" ELSE entry.title

\* f"{author_name}, Medium"
AuthorMedium(author) == CASE author = "Ann" -> "Ann, Medium" [] OTHER -> "Medium"

\* display_source
DisplaySource(site, entry) ==
    IF site.name = "Medium" /\ entry.author # Absent
    THEN AuthorMedium(entry.author)
    ELSE site.name

\* the gate of scan_rss; recent and density are what process_article_intel
\* returns for entry.link (False, 0 when the download fails)
RssPasses(entry) ==
    entry.recent /\ (IsLikelyMatch(entry) \/ entry.density >= DensityGateRss)

\* the dict scan_rss appends
RssArticle(site, entry, clock) ==
    MkArticle(entry.link, GetTitle(entry), DisplaySource(site, entry), Strftime(clock),
              Take(entry.summary, SummaryMax), entry.density)

\* the loop "for entry in feed.entries[:20]": entry.link raises on an entry that
\* has no link, and the except leaves the loop with what found already holds
RECURSIVE RssFound(_, _, _)
RssFound(site, entries, clock) ==
    IF entries = <<>> THEN <<>>
    ELSE IF Head(entries).link = Absent THEN <<>>
    ELSE (IF RssPasses(Head(entries))
          THEN <<RssArticle(site, Head(entries), clock)>>
          ELSE <<>>)
         \o RssFound(site, Tail(entries), clock)

\* one turn of "for site in whitelist"
ScanSite(site, clock) ==
    IF site.rss = "N/A" THEN <<>>
    ELSE IF ~site.feed.parsed THEN <<>>
    ELSE RssFound(site, Take(site.feed.entries, FeedCutRss), clock)

\* a failure in one site ending the loop over the sites
ScanRssUntilFailure(wl, clock) ==
    LET failing == {i \in 1..Len(wl.sites) :
                       /\ wl.sites[i].rss # "N/A"
                       /\ \/ ~wl.sites[i].feed.parsed
                          \/ \E j \in 1..Len(wl.sites[i].feed.entries) :
                                 wl.sites[i].feed.entries[j].link = Absent}
        last == IF failing = {} THEN Len(wl.sites) ELSE Min(failing)
    IN  Flatten([i \in 1..last |-> ScanSite(wl.sites[i], clock)])

\* scan_rss(): found, for a whitelist that was read
ScanRss(wl, clock) ==
    Flatten([i \in 1..Len(wl.sites) |-> ScanSite(wl.sites[i], clock)])

GnPasses(entry) == entry.recent /\ entry.density >= DensityGateGn

\* the dict scan_google_news appends
GnArticle(entry, clock) ==
    MkArticle(entry.link, entry.title, "Web Search", Strftime(clock), <<"E">>, entry.density)

\* the loop "for e in feed.entries[:30]": e.link and e.title raise when absent
RECURSIVE GnFound(_, _)
GnFound(entries, clock) ==
    IF entries = <<>> THEN <<>>
    ELSE IF Head(entries).link = Absent THEN <<>>
    ELSE IF ~GnPasses(Head(entries)) THEN GnFound(Tail(entries), clock)
    ELSE IF Head(entries).title = Absent THEN <<>>
    ELSE <<GnArticle(Head(entries), clock)>> \o GnFound(Tail(entries), clock)

\* scan_google_news(): found
ScanGoogleNews(feed, clock) ==
    IF ~feed.parsed THEN <<>> ELSE GnFound(Take(feed.entries, FeedCutGn), clock)

\* feed entries: complete, without link, without title, too old
EntryShapes ==
    LET full == [link |-> "l", title |-> "tA", summary |-> <<"s">>, author |-> "Ann",
                 recent |-> TRUE, density |-> 3]
    IN  {full,
         [full EXCEPT !.link = Absent],
         [full EXCEPT !.title = Absent, !.author = Absent],
         [full EXCEPT !.recent = FALSE]}

\* the entries of source number n: the j-th entry that has a link has its own url
FeedsOf(n, shapes) ==
    {[j \in 1..Len(f) |->
         IF f[j].link = Absent THEN f[j]
         ELSE [f[j] EXCEPT !.link = UrlPool[(n - 1) * (MaxEntries + 1) + j]]] :
     f \in SeqsUpTo(shapes, MaxEntries)}

\* a site of the whitelist: without feed, with a feed that fails to parse, or with entries
SitesOf(n, name) ==
    {[name |-> name, rss |-> "N/A", feed |-> NoFeed],
     [name |-> name, rss |-> "feed", feed |-> [parsed |-> FALSE, entries |-> <<>>]]}
    \cup {[name |-> name, rss |-> "feed", feed |-> [parsed |-> TRUE, entries |-> f]] :
             f \in FeedsOf(n, EntryShapes)}

Whitelists ==
    {NoWhitelist, [kind |-> "malformed", sites |-> <<>>]}
    \cup {[kind |-> "ok", sites |-> <<s1, s2>>] :
             s1 \in SitesOf(1, "Site"), s2 \in SitesOf(2, "Medium")}

GnFeeds ==
    {[parsed |-> FALSE, entries |-> <<>>]}
    \cup {[parsed |-> TRUE, entries |-> f] :
             f \in FeedsOf(3, {e \in EntryShapes : e.recent})}

InitScan ==
    /\ pc = "scan_input"
    /\ whitelist \in Whitelists
    /\ gn_feed \in GnFeeds
    /\ new_discovered = <<>>
    /\ in_texts = <<>>
    /\ all_embeddings = <<>>
    /\ calls = <<>>
    /\ RubricIdle
    /\ EventsIdle
    /\ db_items = <<>>
    /\ clusters = <<>>
    /\ call_new = <<>>
    /\ call_existing = <<>>
    /\ call_failed = {}
    /\ once_items = <<>>
    /\ thr = <<<<SimNum, SimDen>>, <<SimNum, SimDen>>>>
    /\ thr_clusters = <<<<>>, <<>>>>
    /\ MainIdle

\* scan_rss(): no whitelist, no articles; json.load of a file that is no JSON
\* raises out of scan_rss
RunScanRss ==
    /\ pc = "scan_input"
    /\ IF whitelist.kind = "malformed"
       THEN pc' = "crashed" /\ UNCHANGED new_discovered
       ELSE pc' = "rss_scanned" /\ new_discovered' = ScanRss(whitelist, today)
    /\ UNCHANGED <<db_items, callVars, pureVars, mainVars, whitelist, gn_feed,
                   in_texts, all_embeddings, calls, rubricVars, eventsVars>>

\* new_discovered = scan_rss() + scan_google_news()
RunScanGoogleNews ==
    /\ pc = "rss_scanned"
    /\ pc' = "scanned"
    /\ new_discovered' = new_discovered \o ScanGoogleNews(gn_feed, today)
    /\ UNCHANGED <<db_items, callVars, pureVars, mainVars, whitelist, gn_feed,
                   in_texts, all_embeddings, calls, rubricVars, eventsVars>>

NextScan == RunScanRss \/ RunScanGoogleNews

SpecScan == InitScan /\ [][NextScan]_vars

----------------------------------------------------------------------------
(* get_embeddings_batch, one turn of its loop at a time *)

\* texts in one call of get_embeddings_batch
MaxTexts == 11

SleepSeconds == 2

\* nothing appended for a batch that failed
BatchResultNothing(batch, ok) ==
    IF ok THEN [k \in 1..Len(batch) |-> EmbedContent(batch[k])] ELSE <<>>

\* what one turn appends to all_embeddings: the vectors embed_content returns
\* for the batch, or [None] * len(batch) when the call raises
BatchResult(batch, ok) ==
    IF ok THEN [k \in 1..Len(batch) |-> EmbedContent(batch[k])]
    ELSE [k \in 1..Len(batch) |-> NoVec]

EmbedCalls == SelectSeq(calls, LAMBDA c : c.op = "embed")

\* the loop variable i of "for i in range(0, len(texts), batch_size)"
LoopIndex == BatchSize * Len(EmbedCalls)

TextLists ==
    SeqsUpTo({<<"tA", <<"s">>>>, <<"tB", <<"s">>>>}, MaxTexts)

InitEmbed ==
    /\ pc = "embed_loop"
    /\ in_texts \in TextLists
    /\ all_embeddings = <<>>
    /\ calls = <<>>
    /\ whitelist = NoWhitelist
    /\ gn_feed = NoFeed
    /\ RubricIdle
    /\ EventsIdle
    /\ new_discovered = <<>>
    /\ db_items = <<>>
    /\ clusters = <<>>
    /\ call_new = <<>>
    /\ call_existing = <<>>
    /\ call_failed = {}
    /\ once_items = <<>>
    /\ thr = <<<<SimNum, SimDen>>, <<SimNum, SimDen>>>>
    /\ thr_clusters = <<<<>>, <<>>>>
    /\ MainIdle

\* one turn of the loop: the call for texts[i:i + batch_size], then time.sleep(2)
\* when the call returned and texts are left; a call that raises goes to the
\* except, which appends the Nones and does not sleep
EmbedTurn ==
    /\ pc = "embed_loop"
    /\ LoopIndex < Len(in_texts)
    /\ LET i     == LoopIndex
           batch == SubSeq(in_texts, i + 1,
                           IF i + BatchSize < Len(in_texts) THEN i + BatchSize
                           ELSE Len(in_texts))
       IN  \E ok \in BOOLEAN :
               /\ all_embeddings' = all_embeddings \o BatchResult(batch, ok)
               /\ calls' = calls
                       \o <<[op |-> "embed", size |-> Len(batch), ok |-> ok]>>
                       \o (IF ok /\ i + BatchSize < Len(in_texts)
                           THEN <<[op |-> "sleep", size |-> SleepSeconds, ok |-> TRUE]>>
                           ELSE <<>>)
    /\ UNCHANGED <<pc, in_texts, whitelist, gn_feed, new_discovered, db_items,
                   callVars, pureVars, mainVars, rubricVars, eventsVars>>

\* "return all_embeddings" (at once for no texts)
EmbedReturn ==
    /\ pc = "embed_loop"
    /\ LoopIndex >= Len(in_texts)
    /\ pc' = "embedded"
    /\ UNCHANGED <<in_texts, all_embeddings, calls, whitelist, gn_feed, new_discovered,
                   db_items, callVars, pureVars, mainVars, rubricVars, eventsVars>>

NextEmbed == EmbedTurn \/ EmbedReturn

SpecEmbed == InitEmbed /\ [][NextEmbed]_vars

----------------------------------------------------------------------------
(* _score_github_project of backfill_rubric_scores.py *)

\* str.lower() on the strings of the rows
Lower(text) ==
    CASE text = "OpenClaw" -> "openclaw"
      [] text = "Tools for OpenClaw" -> "tools for openclaw"
      [] text = "OpenClaw skills" -> "openclaw skills"
      [] OTHER -> text

\* ' '.join(topics)
Join(topics) ==
    CASE topics = <<>> -> ""
      [] Len(topics) = 1 -> topics[1]
      [] topics = <<"OpenClaw", "skills">> -> "OpenClaw skills"
      [] OTHER -> ""

\* the words of the rubric that are substrings of a lower-case text
WordsIn(text) ==
    CASE text = "openclaw" -> {"claw", "openclaw"}
      [] text = "awesome-openclaw" -> {"awesome", "awesome-openclaw", "claw", "openclaw"}
      [] text = "my-demo" -> {"demo"}
      [] text = "claw-memory" -> {"claw", "mem", "memory"}
      [] text = "moltbot" -> {"moltbot"}
      [] text = "openclaw skills" -> {"claw", "openclaw", "skill", "skills"}
      [] text = "tools for openclaw" -> {"claw", "openclaw"}
      [] OTHER -> {}

\* "k in text" for some k of words
AnyIn(words, text) == words \cap WordsIn(text) # {}

\* r.get('license', '') or ''
OrEmpty(value) == IF value = "None" THEN "" ELSE value

NeverDays == 9999

\* _days_since(iso): the days from the date to today, 9999 for no date and for
\* a string that is no date
DaysSince(iso) == IF iso.kind = "date" THEN iso.ago ELSE NeverDays

StaleDays == 548
StaleIssues == 5

\* the auto-disqualifiers
AutoDisqualified(lic, name, last_commit_days, open_issues) ==
    \/ lic \in {"NOASSERTION", "SSPL-1.0"}
    \/ AnyIn({"test", "demo", "temp", "wip", "todo", "untitled"}, name)
    \/ last_commit_days >= StaleDays /\ open_issues > StaleIssues

\* 1. activity
Activity(last_commit_days, days_created) ==
    LET act == IF last_commit_days <= 60 THEN 24
               ELSE IF last_commit_days <= 180 THEN 17
               ELSE IF last_commit_days <= 365 THEN 9
               ELSE 2
    IN  IF days_created <= 30 /\ act > 15 THEN 15 ELSE act

\* 2. quality
Quality(lic, stars) ==
    LET base  == IF lic \in {"MIT", "Apache-2.0", "BSD-2-Clause", "BSD-3-Clause"} THEN 14
                 ELSE IF lic = "" THEN 7
                 ELSE IF lic \in {"GPL-3.0", "AGPL-3.0"} THEN 10
                 ELSE 12
        bonus == IF stars > 5000 /\ lic \in {"MIT", "Apache-2.0"} THEN 2 ELSE 0
        qual  == base + bonus
    IN  IF qual < 0 THEN 0 ELSE IF qual > 25 THEN 25 ELSE qual

\* forks / max(stars, 1) > 0.20
ForkRatioHigh(stars, forks) == 5 * forks > (IF stars > 1 THEN stars ELSE 1)

openclaw_kw ==
    {"openclaw", "clawdbot", "moltbot", "moltis", "clawd", "skills", "skill",
     "openclaw-skills", "clawdbot-skill", "crustacean"}

\* 3. relevance
Relevance(owner, name, topic_str, desc, stars, forks) ==
    LET kw_hits == Cardinality(openclaw_kw \cap WordsIn(topic_str))
        rel == IF owner = "openclaw" \/ name = "openclaw" THEN 23
               ELSE IF AnyIn({"awesome-openclaw", "openclaw-skills", "openclaw-usecases"}, name)
                    THEN 20
               ELSE IF AnyIn({"openclaw", "moltis"}, name) THEN 18
               ELSE IF AnyIn({"skill", "awesome", "usecases"}, name) THEN 16
               ELSE IF AnyIn({"claw", "molty", "clawdbot", "clawd"}, name) THEN 16
               ELSE IF kw_hits >= 3 THEN 15
               ELSE IF kw_hits >= 1 THEN 12
               ELSE IF AnyIn({"openclaw", "clawdbot", "moltbot"}, desc) THEN 10
               ELSE 6
    IN  IF ForkRatioHigh(stars, forks) THEN (IF rel + 2 > 25 THEN 25 ELSE rel + 2) ELSE rel

\* 4. traction
Traction(stars, forks, days_created) ==
    LET base   == IF stars >= 20000 /\ forks >= 2000 THEN 13
                  ELSE IF stars >= 5000 /\ forks >= 300 THEN 10
                  ELSE IF stars >= 1000 /\ forks >= 50 THEN 7
                  ELSE IF days_created <= 90 /\ stars >= 200 THEN 4
                  ELSE 2
        raised == IF ForkRatioHigh(stars, forks)
                  THEN (IF base + 2 > 15 THEN 15 ELSE base + 2)
                  ELSE base
    IN  IF forks = 0 /\ stars > 500
        THEN (IF raised - 3 < 0 THEN 0 ELSE raised - 3)
        ELSE raised

novelty_words ==
    {"memory", "mem", "router", "proxy", "studio", "lancedb", "security",
     "translation", "guide", "usecases", "free"}

\* 5. novelty
Novelty(owner, name, stars) ==
    IF owner = "openclaw" \/ name = "openclaw" \/ stars > 20000 THEN 4
    ELSE IF AnyIn(novelty_words, name) THEN 4
    ELSE IF stars > 5000 \/ AnyIn({"awesome"}, name) THEN 3
    ELSE 2

FeaturedFrom == 75
ListedFrom == 50
WatchlistFrom == 25
ArchivedCap == 74

\* the score of an archived row left as it is
NotCapped(total, archived) == total

\* "if archived and total >= 75: total = 74"
Capped(total, archived) ==
    IF archived /\ total >= FeaturedFrom THEN ArchivedCap ELSE total

TierOf(total) ==
    IF total >= FeaturedFrom THEN "featured"
    ELSE IF total >= ListedFrom THEN "listed"
    ELSE IF total >= WatchlistFrom THEN "watchlist"
    ELSE "skip"

\* act + qual + rel + trac + novelty of a row that is not disqualified
RubricTotal(r) ==
    LET lic          == OrEmpty(r.license)
        name         == Lower(r.name)
        owner        == Lower(r.owner)
        days_created == DaysSince(r.created_at)
    IN  Activity(DaysSince(r.pushed_at), days_created)
        + Quality(lic, r.stars)
        + Relevance(owner, name, Lower(Join(r.topics)), Lower(r.description),
                    r.stars, r.forks)
        + Traction(r.stars, r.forks, days_created)
        + Novelty(owner, name, r.stars)

\* _score_github_project(r): (score, tier)
ScoreGithubProject(r) ==
    IF AutoDisqualified(OrEmpty(r.license), Lower(r.name), DaysSince(r.pushed_at),
                        r.open_issues_count)
    THEN <<0, "skip">>
    ELSE LET total == Capped(RubricTotal(r), r.archived)
         IN  <<total, TierOf(total)>>

NoDateGiven == [kind |-> "none", ago |-> 0]

DaysAgo(n) == [kind |-> "date", ago |-> n]

\* rows of the table github_projects
Rows ==
    [stars : {0, 600, 5001, 20001},
     forks : {0, 300, 5000},
     license : {"None", "MIT", "GPL-3.0", "NOASSERTION"},
     name : {"OpenClaw", "awesome-openclaw", "my-demo", "repo", "claw-memory"},
     owner : {"OpenClaw", "dev"},
     topics : {<<>>, <<"moltbot">>, <<"OpenClaw", "skills">>},
     description : {"", "Tools for OpenClaw"},
     pushed_at : {NoDateGiven, DaysAgo(10), DaysAgo(100), DaysAgo(600)},
     created_at : {[kind |-> "bad", ago |-> 0], DaysAgo(10), DaysAgo(60)},
     open_issues_count : {0, 6},
     archived : BOOLEAN]

InitRubric ==
    /\ pc = "row"
    /\ row \in Rows
    /\ scored = <<>>
    /\ EventsIdle
    /\ whitelist = NoWhitelist
    /\ gn_feed = NoFeed
    /\ in_texts = <<>>
    /\ all_embeddings = <<>>
    /\ calls = <<>>
    /\ new_discovered = <<>>
    /\ db_items = <<>>
    /\ clusters = <<>>
    /\ call_new = <<>>
    /\ call_existing = <<>>
    /\ call_failed = {}
    /\ once_items = <<>>
    /\ thr = <<<<SimNum, SimDen>>, <<SimNum, SimDen>>>>
    /\ thr_clusters = <<<<>>, <<>>>>
    /\ MainIdle

\* score, tier = _score_github_project(r)
ScoreRow ==
    /\ pc = "row"
    /\ pc' = "scored"
    /\ scored' = ScoreGithubProject(row)
    /\ UNCHANGED <<row, eventsVars, whitelist, gn_feed, in_texts, all_embeddings, calls,
                   new_discovered, db_items, callVars, pureVars, mainVars>>

SpecRubric == InitRubric /\ [][ScoreRow]_vars

----------------------------------------------------------------------------
(* __main__ of events_forge.py *)

\* the longest list the three scanners return together
MaxEvents == 3

EventUrls == {"e1", "e2", "e3"}

\* the events the scanners find: dicts with a url and a title
Events == [url : EventUrls, title : {"meetup", "workshop"}]

\* scan_eventbrite() + scan_luma() + scan_circle()
RawEvents == SeqsUpTo(Events, MaxEvents)

\* "for e in raw_events: if e['url'] not in seen: seen.add(...); unique_events.append(e)"
RECURSIVE UniqueEvents(_, _, _)
UniqueEvents(raw, seen, unique_events) ==
    IF raw = <<>> THEN unique_events
    ELSE IF Head(raw).url \in seen
         THEN UniqueEvents(Tail(raw), seen, unique_events)
         ELSE UniqueEvents(Tail(raw), seen \cup {Head(raw).url},
                           Append(unique_events, Head(raw)))

\* every unique event, whatever the table holds
NewEventsUnfiltered(raw, existing) == UniqueEvents(raw, {}, <<>>)

\* "new_events = [e for e in unique_events if e['url'] not in existing_urls]"
NewEvents(raw, existing) ==
    SelectSeq(UniqueEvents(raw, {}, <<>>), LAMBDA e : e.url \notin existing)

\* a run starts: the credentials are set or not, the table holds some urls
InitEvents ==
    /\ pc = "events"
    /\ supabase \in BOOLEAN
    /\ events_table \in SUBSET EventUrls
    /\ existing_urls = {}
    /\ raw_events = <<>>
    /\ new_events = <<>>
    /\ save_calls = <<>>
    /\ RubricIdle
    /\ whitelist = NoWhitelist
    /\ gn_feed = NoFeed
    /\ in_texts = <<>>
    /\ all_embeddings = <<>>
    /\ calls = <<>>
    /\ new_discovered = <<>>
    /\ db_items = <<>>
    /\ clusters = <<>>
    /\ call_new = <<>>
    /\ call_existing = <<>>
    /\ call_failed = {}
    /\ once_items = <<>>
    /\ thr = <<<<SimNum, SimDen>>, <<SimNum, SimDen>>>>
    /\ thr_clusters = <<<<>>, <<>>>>
    /\ MainIdle

restOfEvents == <<rubricVars, whitelist, gn_feed, in_texts, all_embeddings, calls,
                  new_discovered, db_items, callVars, pureVars, mainVars>>

\* existing_urls = load_existing_urls(): the urls of the table, or the empty set
\* without a client or when the query raises
LoadExistingUrls ==
    /\ pc = "events"
    /\ \E raised \in BOOLEAN :
           existing_urls' = IF supabase /\ ~raised THEN events_table ELSE {}
    /\ pc' = "loaded"
    /\ UNCHANGED <<supabase, events_table, raw_events, new_events, save_calls, restOfEvents>>

\* raw_events = scan_eventbrite() + scan_luma() + scan_circle()
ScanEvents ==
    /\ pc = "loaded"
    /\ raw_events' \in RawEvents
    /\ pc' = "scanned"
    /\ UNCHANGED <<supabase, events_table, existing_urls, new_events, save_calls,
                   restOfEvents>>

\* the deduplication by url and the filter against existing_urls
DedupEvents ==
    /\ pc = "scanned"
    /\ new_events' = NewEvents(raw_events, existing_urls)
    /\ pc' = "deduped"
    /\ UNCHANGED <<supabase, events_table, existing_urls, raw_events, save_calls,
                   restOfEvents>>

\* "if new_events: save_events(new_events)": the upsert adds the urls to the
\* table unless there is no client or the upsert raises
SaveEvents ==
    /\ pc = "deduped"
    /\ new_events # <<>>
    /\ save_calls' = Append(save_calls, new_events)
    /\ \E raised \in BOOLEAN :
           events_table' = IF supabase /\ ~raised
                           THEN events_table \cup {new_events[i].url : i \in 1..Len(new_events)}
                           ELSE events_table
    /\ pc' = "done"
    /\ UNCHANGED <<supabase, existing_urls, raw_events, new_events, restOfEvents>>

\* "else: print('No new events found.')"
NoNewEvents ==
    /\ pc = "deduped"
    /\ new_events = <<>>
    /\ pc' = "done"
    /\ UNCHANGED <<eventsVars, restOfEvents>>

NextEvents == LoadExistingUrls \/ ScanEvents \/ DedupEvents \/ SaveEvents \/ NoNewEvents

SpecEvents == InitEvents /\ [][NextEvents]_vars

----------------------------------------------------------------------------
(* What the properties below talk about *)

\* the call went past the early return "if not new_articles: return existing_items"
Merged == pc \in {"once", "twice"} /\ call_new # <<>>

\* the anchors of the last call, in current_batch_clustered order
NewAnchors == [k \in 1..Len(clusters) |-> new_discovered[clusters[k][1]]]

\* the list the last call sorted: the anchors it kept, then existing_items
Combined ==
    SelectSeq(NewAnchors, LAMBDA a : \A i \in 1..Len(call_existing) :
                                         call_existing[i].url # a.url)
    \o call_existing

IsOld(x) == \E i \in 1..Len(call_existing) : call_existing[i].url = x.url

OnDate(items, d) == SelectSeq(items, LAMBDA x : x.date = d)

NoTwoSameUrl(items) ==
    \A i, j \in 1..Len(items) : i # j => items[i].url # items[j].url

IsPrefix(s, t) == Len(s) <= Len(t) /\ s = SubSeq(t, 1, Len(s))

Newer(d1, d2) == Strptime(d1) > Strptime(d2)

----------------------------------------------------------------------------
(* Properties of the clustering specification *)

\* C3: in one clustering run two articles with different dates are never members
\* of the same cluster, and no anchor's moreCoverage lists an article of another
\* date than the anchor's.
TemporalIsolation ==
    pc = "clustered" =>
        /\ \A k \in 1..Len(clusters) : \A i, j \in Range(clusters[k]) :
               new_discovered[i].date = new_discovered[j].date
        /\ \A i, j \in 1..Len(new_discovered) :
               (\E e \in Range(new_discovered[i].moreCoverage) :
                    e.url = new_discovered[j].url)
               => new_discovered[j].date = new_discovered[i].date

\* two embedded articles of different dates whose similarity exceeds the threshold,
\* one of them the anchor of a cluster with linked coverage
TemporalIsolationCase ==
    /\ pc = "clustered"
    /\ \E i, j \in 1..Len(new_discovered) :
           /\ new_discovered[i].date # new_discovered[j].date
           /\ new_discovered[i].vec # NoVec
           /\ new_discovered[j].vec # NoVec
           /\ SimExceeds(new_discovered[i].vec, new_discovered[j].vec, SimNum, SimDen)
           /\ new_discovered[i].moreCoverage # <<>>

\* C8: the anchor of every cluster is a member of highest density (an absent
\* density counting as 0), and of the members tied for the highest density it is
\* the one discovered first in the batch.
AnchorChoice ==
    pc = "clustered" =>
        \A k \in 1..Len(clusters) : \A m \in 2..Len(clusters[k]) :
            LET a == clusters[k][1]
                b == clusters[k][m]
            IN  \/ Density(new_discovered[a]) > Density(new_discovered[b])
                \/ /\ Density(new_discovered[a]) = Density(new_discovered[b])
                   /\ a < b

\* a cluster of three: the first discovered has no density key, the second and
\* third tie for the highest density; the second is the anchor
AnchorChoiceCase ==
    /\ pc = "clustered"
    /\ \E k \in 1..Len(clusters) :
           /\ Len(clusters[k]) = 3
           /\ clusters[k][1] = 2
           /\ Density(new_discovered[2]) = Density(new_discovered[3])
           /\ Density(new_discovered[2]) > Density(new_discovered[1])
           /\ new_discovered[1].density = NoDensity

----------------------------------------------------------------------------
(* Properties of the threshold specification *)

\* C7 as stated: for thresholds t1 < t2 the greedy clustering of the same
\* articles produces at t1 at most as many clusters as at t2.
ThresholdMonotone ==
    pc = "thr_done" => Len(thr_clusters[1]) <= Len(thr_clusters[2])

\* C7 as amended: the count is monotone for a bucket of at most three articles;
\* for any bucket the first anchor is the same at both thresholds and its cluster
\* at t2 is contained in its cluster at t1.
ThresholdMonotoneSmall ==
    pc = "thr_done" =>
        /\ Len(new_discovered) <= 3 => Len(thr_clusters[1]) <= Len(thr_clusters[2])
        /\ new_discovered # <<>> =>
               /\ thr_clusters[1][1][1] = thr_clusters[2][1][1]
               /\ Range(thr_clusters[2][1]) \subseteq Range(thr_clusters[1][1])

\* three articles that are one cluster at t1 and three clusters at t2
ThresholdMonotoneCase ==
    /\ pc = "thr_done"
    /\ Len(new_discovered) = 3
    /\ Len(thr_clusters[1]) = 1
    /\ Len(thr_clusters[2]) = 3

----------------------------------------------------------------------------
(* Properties of the merge specification *)

\* a persisted list as a run leaves it when every url is stored once
WellFormed(items) == Len(items) <= MaxSize /\ NoTwoSameUrl(items)

\* C2: running the call with the same batch against its own result gives the
\* result of running it once, same entries in the same order, stated for
\* persisted lists within the window that hold every url once.
MergeIdempotent ==
    (pc = "twice" /\ WellFormed(once_items) /\ NoTwoSameUrl(call_new))
    => db_items = once_items

\* C4: the returned list has at most max_size entries, for every batch (the empty
\* one included) and every persisted list (a longer one included).
BoundedOutput == pc \in {"once", "twice"} => Len(db_items) <= MaxSize

\* C5: when the merge drops entries, the kept entries are the first max_size of
\* the date-sorted combined list in unchanged relative order, and no dropped entry
\* is newer than a kept one.
TruncationDropsTail ==
    (Merged /\ Len(Combined) > MaxSize) =>
        /\ Len(db_items) = MaxSize
        /\ \A i, j \in 1..Len(db_items) :
               i < j => ~Newer(db_items[j].date, db_items[i].date)
        /\ \A x \in Range(db_items) : Count(db_items, x) <= Count(Combined, x)
        /\ \A d \in DaySet : IsPrefix(OnDate(db_items, d), OnDate(Combined, d))
        /\ \A x \in Range(Combined) :
               Count(db_items, x) < Count(Combined, x)
               => \A y \in Range(db_items) : ~Newer(x.date, y.date)

\* the window cut the combined list, dropping an entry older than every kept one
\* and keeping a new anchor
TruncationDropsTailCase ==
    /\ Merged
    /\ Len(Combined) > MaxSize
    /\ \E x \in Range(Combined) :
           /\ x \notin Range(db_items)
           /\ \A y \in Range(db_items) : Newer(y.date, x.date)
    /\ \E y \in Range(db_items) : ~IsOld(y)

\* C6: the list returned for a non-empty batch is ordered by date descending;
\* among entries of equal date every surviving new anchor precedes every existing
\* entry, and the existing entries keep their relative order.
MergeOrdering ==
    Merged =>
        /\ \A i, j \in 1..Len(db_items) :
               i < j => ~Newer(db_items[j].date, db_items[i].date)
        /\ \A i, j \in 1..Len(db_items) :
               (i < j /\ db_items[i].date = db_items[j].date /\ IsOld(db_items[i]))
               => IsOld(db_items[j])
        /\ \A d \in DaySet :
               IsPrefix(SelectSeq(OnDate(db_items, d), IsOld), OnDate(call_existing, d))

\* the sort moved a newer existing entry ahead of a surviving new anchor, and the
\* anchor stands ahead of an existing entry of its own date
MergeOrderingCase ==
    /\ Merged
    /\ Len(Combined) > 2
    /\ IsOld(db_items[1])
    /\ ~IsOld(db_items[2])
    /\ Newer(db_items[1].date, db_items[2].date)
    /\ \E i \in 1..Len(call_existing) : call_existing[i].date = db_items[2].date

\* C9 as stated: when a new anchor's url is the url of an entry of the existing
\* list, the output holds exactly one entry for that url, the persisted one
\* (stated for persisted lists within the window that hold every url once).
FirstSeenWins ==
    (Merged /\ WellFormed(call_existing)) =>
        \A k \in 1..Len(NewAnchors) :
            LET u == NewAnchors[k].url
            IN  Len(SelectSeq(call_existing, LAMBDA x : x.url = u)) = 1
                => /\ Len(SelectSeq(db_items, LAMBDA x : x.url = u)) = 1
                   /\ \A x \in Range(db_items) : x.url = u => x \in Range(call_existing)

\* C9 as amended: the new anchor is discarded: every output entry for that url is
\* a previously persisted entry, and all of them are in the output unless the
\* window cut the combined list.
FirstSeenWinsInWindow ==
    Merged =>
        \A k \in 1..Len(NewAnchors) :
            LET u == NewAnchors[k].url
            IN  IsOld(NewAnchors[k])
                => /\ \A x \in Range(db_items) :
                          x.url = u => Count(db_items, x) <= Count(call_existing, x)
                   /\ Len(Combined) <= MaxSize
                          => \A x \in Range(call_existing) :
                                 x.url = u => Count(db_items, x) = Count(call_existing, x)

\* a new anchor with a persisted url, beside a new anchor that survives
FirstSeenWinsCase ==
    /\ pc = "once"
    /\ call_new # <<>>
    /\ \E k, m \in 1..Len(NewAnchors) :
           /\ IsOld(NewAnchors[k])
           /\ ~IsOld(NewAnchors[m])
           /\ NewAnchors[m] \in Range(db_items)
           /\ \E x \in Range(db_items) : x.url = NewAnchors[k].url

----------------------------------------------------------------------------
(* Properties of the main sequence *)

\* C1: starting from an empty persisted list, after any sequence of runs no two
\* entries of the persisted list have the same url.
UniqueUrls == NoTwoSameUrl(db_items) /\ NoTwoSameUrl(store.items)

\* C10: a run writes the file at most once, as its last step, and a run that
\* fails at any point, the save included, leaves the content persisted before
\* the run as it was.
AtomicSingleWrite ==
    /\ writes <= 1
    /\ pc \notin {"dump", "done", "crashed"} => store = store0
    /\ (pc = "crashed" /\ store0.kind = "ok" /\ store0.items # <<>>) => store = store0

\* C11: a run ends without having saved only when the save itself fails: no step
\* before the save (load, scans, summaries, clustering, backfills) ends the run.
SaveOnlyFatal == [][pc' = "crashed" => pc \in {"save", "dump"}]_vars

----------------------------------------------------------------------------
(* Properties of the scans *)

\* the sources in the order they are scanned: the sites, then the search
SourceCount == Len(whitelist.sites) + 1

IsSearch(n) == n = SourceCount

FeedOf(n) == IF IsSearch(n) THEN gn_feed ELSE whitelist.sites[n].feed

\* the entries of source n at which the scan raises
RaisesAt(n) ==
    {j \in 1..Len(FeedOf(n).entries) :
        LET e == FeedOf(n).entries[j]
        IN  \/ e.link = Absent
            \/ IsSearch(n) /\ GnPasses(e) /\ e.title = Absent}

SourceFails(n) == ~FeedOf(n).parsed \/ RaisesAt(n) # {}

PassesGate(n, e) == IF IsSearch(n) THEN GnPasses(e) ELSE RssPasses(e)

\* the links of the entries of source n before position upto that pass the gate
LinksBefore(n, upto) ==
    LET kept == SelectSeq(SubSeq(FeedOf(n).entries, 1, upto - 1),
                          LAMBDA e : PassesGate(n, e))
    IN  [k \in 1..Len(kept) |-> kept[k].link]

AllLinks(n) == LinksBefore(n, Len(FeedOf(n).entries) + 1)

LinksBeforeFailure(n) ==
    IF RaisesAt(n) = {} THEN AllLinks(n) ELSE LinksBefore(n, Min(RaisesAt(n)))

Urls(arts) == [i \in 1..Len(arts) |-> arts[i].url]

\* the articles of the batch that come from source n
Contribution(n) ==
    SelectSeq(new_discovered,
              LAMBDA a : \E j \in 1..Len(FeedOf(n).entries) :
                             FeedOf(n).entries[j].link = a.url)

MalformedDropped ==
    /\ (pc = "crashed" /\ new_discovered = <<>>) => whitelist.kind = "malformed"
    /\ pc = "scanned" =>
           \A i \in 1..Len(new_discovered) :
               LET a == new_discovered[i]
               IN  /\ a.url # Absent /\ a.url # ""
                   /\ a.title # Absent /\ a.title # ""
                   /\ a.source # ""
                   /\ a.date \in DaySet
                   /\ a.vec = NoVec
                   /\ \A n \in 1..SourceCount : \A j \in 1..Len(FeedOf(n).entries) :
                          FeedOf(n).entries[j].link = a.url
                          => FeedOf(n).entries[j].title # Absent

----------------------------------------------------------------------------
(* Properties of get_embeddings_batch *)

\* the batches whose call raised
FailedBatches == {b \in 1..Len(EmbedCalls) : ~EmbedCalls[b].ok}

\* C13: the returned list is as long as the input; the texts of a batch whose
\* call failed have None and every other text has the vector of its own text at
\* its own position; each batch is sent once, failed or not.
EmbeddingDegrades ==
    pc = "embedded" =>
        /\ Len(all_embeddings) = Len(in_texts)
        /\ Len(EmbedCalls) * BatchSize >= Len(in_texts)
        /\ (Len(EmbedCalls) - 1) * BatchSize < Len(in_texts) \/ in_texts = <<>>
        /\ \A i \in 1..Len(in_texts) :
               all_embeddings[i] =
                   IF ((i - 1) \div BatchSize) + 1 \in FailedBatches
                   THEN NoVec
                   ELSE EmbedContent(in_texts[i])
        /\ all_embeddings = GetEmbeddingsBatch(in_texts, FailedBatches)

\* three batches of different texts, the second of which failed
EmbeddingDegradesCase ==
    /\ pc = "embedded"
    /\ Len(EmbedCalls) = 3
    /\ FailedBatches = {2}
    /\ in_texts[1] # in_texts[2]
    /\ in_texts[5] # in_texts[6]
    /\ in_texts[10] # in_texts[11]

\* C14: no call of the embedding service follows another without a pause in
\* between, whether the earlier call returned or raised, and no call carries
\* more than the batch size of texts.
PauseBetweenCalls ==
    /\ \A k \in 1..Len(calls) : calls[k].op = "embed" => calls[k].size <= BatchSize
    /\ \A k \in 1..(Len(calls) - 1) :
           ~(calls[k].op = "embed" /\ calls[k + 1].op = "embed")

----------------------------------------------------------------------------
(* Properties of the load *)

\* C16: a run that finds the file absent or unreadable goes on from the load
\* with no prior items: the clustering call gets an empty existing list and its
\* result holds new anchors of the run only.
LoadFailureEmpty ==
    /\ [][pc = "load" => pc' = "scan_rss"]_vars
    /\ []((store0.kind # "ok" /\ pc \notin {"idle", "load"}) =>
            /\ call_existing = <<>>
            /\ pc \in {"scan_rss", "scan_gn", "summaries", "cluster"} => db_items = <<>>
            /\ \A x \in Range(db_items) : x \in Range(NewAnchors)
            /\ Len(db_items) <= Len(NewAnchors))

\* a run that found the file left unreadable by the run before it, and saved
\* the anchors it made
LoadFailureEmptyCase ==
    /\ pc = "done"
    /\ store0.kind = "partial"
    /\ db_items # <<>>
    /\ store.items = db_items

----------------------------------------------------------------------------
(* Properties of the greedy assignment *)

\* the places <<cluster, position>> at which article i stands in the clusters
PlacesOf(i) ==
    {p \in (1..Len(clusters)) \X (1..Len(new_discovered)) :
        p[2] <= Len(clusters[p[1]]) /\ clusters[p[1]][p[2]] = i}

\* article i is handled before article j of its bucket
HandledBefore(i, j) ==
    \/ Density(new_discovered[i]) > Density(new_discovered[j])
    \/ Density(new_discovered[i]) = Density(new_discovered[j]) /\ i < j

\* the cosine of the vectors of articles i and j is greater than 3/4
Above34(i, j) ==
    LET v == new_discovered[i].vec
        w == new_discovered[j].vec
    IN  Dot(v, w) > 0 /\ 16 * Dot(v, w) * Dot(v, w) > 9 * Dot(v, v) * Dot(w, w)

SameBucket(j, k) ==
    new_discovered[clusters[j][1]].date = new_discovered[clusters[k][1]].date

\* C17: every embedded article stands in exactly one cluster; clusters are made
\* and filled in density-descending order; a member's similarity with its
\* cluster's anchor is strictly greater than 0.75 and its similarity with the
\* anchor of no earlier cluster is; an anchor's similarity with the anchor of no
\* earlier cluster is.
GreedyFirstMatch ==
    pc = "clustered" =>
        /\ \A i \in 1..Len(new_discovered) :
               Cardinality(PlacesOf(i)) = IF new_discovered[i].vec = NoVec THEN 0 ELSE 1
        /\ \A k \in 1..Len(clusters) : \A m, n \in 1..Len(clusters[k]) :
               m < n => HandledBefore(clusters[k][m], clusters[k][n])
        /\ \A j, k \in 1..Len(clusters) :
               (j < k /\ SameBucket(j, k)) => HandledBefore(clusters[j][1], clusters[k][1])
        /\ \A k \in 1..Len(clusters) : \A m \in 2..Len(clusters[k]) :
               Above34(clusters[k][m], clusters[k][1])
        /\ \A j, k \in 1..Len(clusters) : \A m \in 1..Len(clusters[k]) :
               (j < k /\ SameBucket(j, k)) => ~Above34(clusters[k][m], clusters[j][1])

\* four articles of equal density: the third joins the first's cluster although
\* it is more similar to the second, which is an anchor; the fourth's similarity
\* with the first is exactly 0.75 and it joins the second's cluster
GreedyFirstMatchCase ==
    /\ pc = "clustered"
    /\ clusters = <<<<1, 3>>, <<2, 4>>>>
    /\ LET v(i) == new_discovered[i].vec
       IN  /\ Dot(v(3), v(2)) * Dot(v(3), v(2)) * NormSq(v(1))
                  > Dot(v(3), v(1)) * Dot(v(3), v(1)) * NormSq(v(2))
           /\ 16 * Dot(v(4), v(1)) * Dot(v(4), v(1)) = 9 * NormSq(v(4)) * NormSq(v(1))

----------------------------------------------------------------------------
(* Properties of the linked coverage *)

\* C18: the moreCoverage of a cluster's anchor is the source and url of the
\* cluster's other members in the order they joined; it does not list the anchor
\* and is empty for a cluster of one; the anchors are what the call returns.
LinkedCoverage ==
    pc = "clustered" =>
        /\ \A k \in 1..Len(clusters) :
               LET cov == new_discovered[clusters[k][1]].moreCoverage
               IN  /\ Len(cov) = Len(clusters[k]) - 1
                   /\ \A m \in 1..Len(cov) :
                          /\ cov[m].source = new_discovered[clusters[k][m + 1]].source
                          /\ cov[m].url = new_discovered[clusters[k][m + 1]].url
                          /\ clusters[k][m + 1] # clusters[k][1]
        /\ \A x \in Range(db_items) :
               \E k \in 1..Len(clusters) : x = new_discovered[clusters[k][1]]

\* a cluster of three whose members joined in another order than they were
\* discovered in, beside no other cluster
LinkedCoverageCase ==
    /\ pc = "clustered"
    /\ clusters = <<<<2, 3, 1>>>>
    /\ Urls(new_discovered[2].moreCoverage) = <<"u3", "u1">>
    /\ db_items = <<new_discovered[2]>>

----------------------------------------------------------------------------
(* Properties of the persisted entries *)

\* C19: every entry of the result that has the url of an existing entry is an
\* existing entry with every field as it was, the moreCoverage included; an
\* existing entry is missing from the result only when the combined list was
\* longer than the window.
PersistedUnchanged ==
    pc = "once" =>
        /\ \A x \in Range(db_items) :
               IsOld(x) => Count(db_items, x) <= Count(call_existing, x)
        /\ \A x \in Range(call_existing) :
               Count(db_items, x) < Count(call_existing, x) => Len(Combined) > MaxSize
        /\ call_new = <<>> => db_items = call_existing

\* an existing entry and a surviving new anchor of its date stand together in
\* the result
PersistedUnchangedCase ==
    /\ pc = "once"
    /\ Len(db_items) = 2
    /\ ~IsOld(db_items[1])
    /\ IsOld(db_items[2])
    /\ db_items[1].date = db_items[2].date
    /\ db_items[2] \in Range(call_existing)

----------------------------------------------------------------------------
(* Properties of the articles left without a vector *)

\* the articles of the batch whose embedding call failed (every article of a
\* batch as the scans build it needs a vector)
Unembedded == {i \in 1..Len(call_new) : BatchOf(i) \in call_failed}

\* C20: an article whose embedding call failed has no vector after the call, is
\* a member of no cluster and so no anchor, and its url is in the result neither
\* as an entry nor in an entry's moreCoverage.
UnembeddedDropped ==
    pc = "clustered" =>
        \A i \in Unembedded :
            /\ new_discovered[i].vec = NoVec
            /\ \A k \in 1..Len(clusters) : i \notin Range(clusters[k])
            /\ \A x \in Range(db_items) :
                   /\ x.url # call_new[i].url
                   /\ \A c \in Range(x.moreCoverage) : c.url # call_new[i].url

\* seven articles: the call for the first five failed, the sixth is the only
\* anchor of the result and lists the seventh
UnembeddedDroppedCase ==
    /\ pc = "clustered"
    /\ Len(call_new) = 7
    /\ call_failed = {1}
    /\ Len(db_items) = 1
    /\ db_items[1].url = call_new[6].url
    /\ Urls(db_items[1].moreCoverage) = <<call_new[7].url>>
    /\ call_new[1].title = call_new[6].title

----------------------------------------------------------------------------
(* Properties of the rubric score *)

\* the row meets one of the auto-disqualifiers
Disqualifying ==
    \/ row.license \in {"NOASSERTION", "SSPL-1.0"}
    \/ row.name = "my-demo"
    \/ /\ row.pushed_at.kind # "date" \/ row.pushed_at.ago >= 548
       /\ row.open_issues_count > 5

\* C21: an archived row gets a score of at most 74 and a tier other than
\* 'featured'; the tier is 'featured' only for a score of at least 75, 'listed'
\* only for 50..74, 'watchlist' only for 25..49 and 'skip' only below 25; a row
\* that meets an auto-disqualifier gets exactly (0, 'skip').
ArchivedNeverFeatured ==
    pc = "scored" =>
        /\ row.archived => scored[1] <= 74 /\ scored[2] # "featured"
        /\ scored[2] \in {"featured", "listed", "watchlist", "skip"}
        /\ scored[2] = "featured" => scored[1] >= 75
        /\ scored[2] = "listed" => scored[1] >= 50 /\ scored[1] <= 74
        /\ scored[2] = "watchlist" => scored[1] >= 25 /\ scored[1] <= 49
        /\ scored[2] = "skip" => scored[1] < 25
        /\ Disqualifying => scored = <<0, "skip">>

\* an archived row whose five parts add up to 84, scored 74 and listed
ArchivedNeverFeaturedCase ==
    /\ pc = "scored"
    /\ row.archived
    /\ row.stars = 20001 /\ row.forks = 5000 /\ row.license = "MIT"
    /\ row.owner = "OpenClaw" /\ row.pushed_at = DaysAgo(10)
    /\ row.created_at = DaysAgo(60) /\ row.name = "repo"
    /\ scored = <<74, "listed">>

----------------------------------------------------------------------------
(* Properties of the events run *)

\* C22: the events passed to save_events have pairwise distinct urls, each is
\* the first scanned event of its url, none has a url that load_existing_urls
\* returned, and save_events is not called when every scanned url was returned
\* by load_existing_urls.
EventDedupBeforeSave ==
    /\ \A c \in 1..Len(save_calls) :
           LET events == save_calls[c] IN
               /\ \A i, j \in 1..Len(events) : events[i].url = events[j].url => i = j
               /\ \A i \in 1..Len(events) :
                      /\ events[i].url \notin existing_urls
                      /\ \E k \in 1..Len(raw_events) :
                             /\ raw_events[k] = events[i]
                             /\ \A m \in 1..(k - 1) : raw_events[m].url # events[i].url
    /\ pc = "done" /\ (\A k \in 1..Len(raw_events) : raw_events[k].url \in existing_urls)
           => save_calls = <<>>

\* three events scanned, the third with the url of the first and another title,
\* the second already in the table: save_events gets the first alone
EventDedupBeforeSaveCase ==
    /\ pc = "done"
    /\ existing_urls = {"e2"}
    /\ raw_events = <<[url |-> "e1", title |-> "meetup"],
                      [url |-> "e2", title |-> "meetup"],
                      [url |-> "e1", title |-> "workshop"]>>
    /\ save_calls = << <<[url |-> "e1", title |-> "meetup"]>> >>

\* every scanned url is in the table: no call of save_events
NothingNewCase ==
    /\ pc = "done"
    /\ raw_events # <<>>
    /\ existing_urls # {}
    /\ save_calls = <<>>

====
